---------------------------- MODULE Spec2Model ----------------------------
(***************************************************************************)
(* A model of mr2bib (src/mr2bib.py): the identifier validator, the fetch  *)
(* of one record from the MathSciNet endpoint, the aggregation of a batch  *)
(* into a dictionary and a list, and the command-line front end with its   *)
(* output buffer, message buffer and exit code.                            *)
(*                                                                         *)
(* A Python str is a TLA+ string where it is only compared, sliced and     *)
(* concatenated.  is_valid is given the sequence of the characters of its  *)
(* argument, each character a one-character string, except that the        *)
(* character U+00B2 (SUPERSCRIPT TWO) is written "U+00B2".                 *)
(***************************************************************************)
EXTENDS Integers, Sequences, FiniteSets, TLC

VARIABLES
    pc,          \* position in main(): see the actions below
    args,        \* Cli.args: [id, comments, quiet, verbose]
    keys,        \* mr2bib_dict: the valid keys, in input order
    d,           \* mr2bib_dict: the dictionary key -> Reference / ReferenceErrorInfo
    requests,    \* the HTTP exchanges made so far: [s1, status, body]
    bib,         \* the list returned by mr2bib
    output,      \* Cli.output
    messages,    \* Cli.messages
    error_count, \* Cli.error_count
    code,        \* Cli.code
    stdout,      \* what was written to sys.stdout
    stderr,      \* what was written to sys.stderr
    exit,        \* how main() ended: [kind |-> "none" | "return" | "raise", ...]
    status,      \* the exit status of the process: <<>> while it runs, then <<n>>
    fn_in,       \* argument of the function under test (SpecValid, SpecFetch)
    fn_out       \* its result

vars == <<pc, args, keys, d, requests, bib, output, messages, error_count,
          code, stdout, stderr, exit, status, fn_in, fn_out>>

cliVars == <<args, keys, d, requests, bib, output, messages, error_count,
             code, stdout, stderr, exit, status>>

-----------------------------------------------------------------------------
(* Bounds of the model. *)

MaxIds == 3        \* identifiers on the command line or on standard input
MaxLines == 4      \* lines of a response body in SpecFetch
MaxDigits == 9     \* characters after the two-character prefix in SpecValid

-----------------------------------------------------------------------------
(* Python string operations. *)

Min(a, b) == IF a < b THEN a ELSE b

\* s[a:b] for 0 <= a <= b: Python clips the slice to the string.
Slice(s, a, b) == SubSeq(s, a + 1, Min(b, Len(s)))

\* The characters of a string, as a sequence of one-character strings.
Chars(s) == [i \in 1..Len(s) |-> SubSeq(s, i, i)]

AsciiDigits == {"0", "1", "2", "3", "4", "5", "6", "7", "8", "9"}

\* Characters c with c.isdigit() true: the decimal digits and the characters
\* of Unicode numeric type Digit, of which U+00B2 stands here.
IsDigitChar(c) == c \in AsciiDigits \cup {"U+00B2"}

\* str.isdigit(): true iff the string is not empty and all characters are digits.
isdigit(cs) == Len(cs) > 0 /\ \A i \in 1..Len(cs) : IsDigitChar(cs[i])

Whitespace == {" ", "\t", "\r", "\n", "\f"}

RECURSIVE lstrip(_)
lstrip(s) ==
    IF Len(s) > 0 /\ SubSeq(s, 1, 1) \in Whitespace
    THEN lstrip(SubSeq(s, 2, Len(s)))
    ELSE s

RECURSIVE rstrip(_)
rstrip(s) ==
    IF Len(s) > 0 /\ SubSeq(s, Len(s), Len(s)) \in Whitespace
    THEN rstrip(SubSeq(s, 1, Len(s) - 1))
    ELSE s

\* str.strip()
strip(s) == rstrip(lstrip(s))

\* sub in s
Contains(s, sub) ==
    \E i \in 1..(Len(s) - Len(sub) + 1) : SubSeq(s, i, i + Len(sub) - 1) = sub

-----------------------------------------------------------------------------
(* is_valid, on the characters of key. *)

is_valid(key) ==
    /\ Slice(key, 0, 2) = <<"M", "R">>
    /\ isdigit(Slice(key, 2, Len(key)))
    /\ Len(key) \in {9, 10}

-----------------------------------------------------------------------------
(* Reference, ReferenceErrorInfo and the exceptions. *)

Reference(entry) == [type |-> "Reference", entry |-> entry]

\* s.rfind(c): the 0-based index of the last occurrence of c in s, or -1.
rfind(s, c) ==
    LET at == {i \in 1..Len(s) : SubSeq(s, i, i) = c}
    IN  IF at = {} THEN -1 ELSE (CHOOSE i \in at : \A j \in at : j <= i) - 1

\* s[:n], where a negative n counts from the end of s.
SliceTo(s, n) ==
    IF n >= 0 THEN Slice(s, 0, n)
    ELSE IF Len(s) + n > 0 THEN Slice(s, 0, Len(s) + n) ELSE ""

ReferenceErrorInfo(message, id) ==
    [type    |-> "ReferenceErrorInfo",
     message |-> message,
     id      |-> id,
     bare_id |-> SliceTo(id, rfind(id, "v")),
     updated |-> "0"]

\* Reference.bibtex and ReferenceErrorInfo.bibtex
bibtex(b) ==
    IF b.type = "ReferenceErrorInfo"
    THEN "@comment{" \o b.id \o ": " \o b.message \o "}"
    ELSE b.entry

\* ReferenceErrorInfo.__str__
str(b) == "Error: " \o b.message \o " (" \o b.id \o ")"

Return(value) == [kind |-> "return", value |-> value]

Raise(class, a) == [kind |-> "raise", class |-> class, args |-> a]

\* The classes an exception of class c is an instance of.  HTTPError is
\* urllib's; nothing in mr_request raises it.
Bases(c) ==
    CASE c = "NotFoundError" -> {"NotFoundError", "Exception"}
      [] c = "FatalError" -> {"FatalError", "Exception"}
      [] c = "AuthenticationException" -> {"AuthenticationException", "Exception"}
      [] c = "HTTPError" -> {"HTTPError", "Exception"}
      [] OTHER -> {"Exception"}

\* str(exception)
ExcStr(e) ==
    IF e.class = "AuthenticationException" THEN "Not authenticated"
    ELSE IF Len(e.args) = 1 THEN e.args[1]
    ELSE IF Len(e.args) = 0 THEN ""
    ELSE "('" \o e.args[1] \o "', '" \o e.args[2] \o "')"

-----------------------------------------------------------------------------
(* mr_request: one HTTP exchange and the extraction of the <pre> block.    *)
(* resp is the response: [status, body], body being r.text.split("\n").    *)

\* The disabled replacement of the key of the entry by the requested key.
correct_key_enabled(goodkey, c) == "@article {" \o goodkey \o "," \o c

correct_key(goodkey, c) == c

NotFoundMarker == "No publications results for"

\* The loop over the lines of the body, from line i on: the text of the
\* code block, or the NotFoundError raised at a not-found line.
\* ScanLinesCloseLate appends the line before it tests for the close marker;
\* ScanLinesNotFoundOutside tests for the not-found line outside a block only.
RECURSIVE ScanLinesCloseLate(_, _, _, _, _)
ScanLinesCloseLate(key, lines, i, inCodeBlock, c) ==
    IF i > Len(lines) THEN Return(c)
    ELSE
      LET line == lines[i]
          c1   == IF inCodeBlock THEN c \o "\n" \o line ELSE c
          in1  == IF strip(line) = "</pre>" THEN FALSE ELSE inCodeBlock
          in2  == IF strip(line) = "<pre>" THEN TRUE ELSE in1
      IN  IF Contains(line, NotFoundMarker)
          THEN Raise("NotFoundError", <<"No such publication", key>>)
          ELSE ScanLinesCloseLate(key, lines, i + 1, in2, c1)

RECURSIVE ScanLinesNotFoundOutside(_, _, _, _, _)
ScanLinesNotFoundOutside(key, lines, i, inCodeBlock, c) ==
    IF i > Len(lines) THEN Return(c)
    ELSE
      LET line == lines[i]
          in1  == IF strip(line) = "</pre>" THEN FALSE ELSE inCodeBlock
          c1   == IF in1 THEN c \o "\n" \o line ELSE c
          in2  == IF strip(line) = "<pre>" THEN TRUE ELSE in1
      IN  IF ~inCodeBlock /\ Contains(line, NotFoundMarker)
          THEN Raise("NotFoundError", <<"No such publication", key>>)
          ELSE ScanLinesNotFoundOutside(key, lines, i + 1, in2, c1)

RECURSIVE ScanLines(_, _, _, _, _)
ScanLines(key, lines, i, inCodeBlock, c) ==
    IF i > Len(lines) THEN Return(c)
    ELSE
      LET line == lines[i]
          in1  == IF strip(line) = "</pre>" THEN FALSE ELSE inCodeBlock
          c1   == IF in1 THEN c \o "\n" \o line ELSE c
          in2  == IF strip(line) = "<pre>" THEN TRUE ELSE in1
      IN  IF Contains(line, NotFoundMarker)
          THEN Raise("NotFoundError", <<"No such publication", key>>)
          ELSE ScanLines(key, lines, i + 1, in2, c1)

mr_request(key, resp) ==
    IF resp.status = 401 THEN Raise("AuthenticationException", <<>>)
    ELSE IF resp.status # 200
      THEN Raise("Exception",
                 <<"Received HTTP status code " \o ToString(resp.status)>>)
    ELSE LET r == ScanLines(key, resp.body, 1, FALSE, "")
         IN  IF r.kind = "return" THEN Return(correct_key(key, r.value)) ELSE r

\* The query parameters mr_request sends for key.
Payload(key) == [fn |-> 130, fmt |-> "bibtex", pg1 |-> "MR", s1 |-> key]

-----------------------------------------------------------------------------
(* mr2bib_dict and mr2bib. *)

EmptyDict == [k \in {} |-> 0]

\* d[key] = value
DictSet(dd, key, value) ==
    [k \in DOMAIN dd \cup {key} |-> IF k = key THEN value ELSE dd[k]]

\* ValidKeys without the test of is_valid.
ValidKeysUnfiltered(key_list) == key_list

\* The keys of key_list that pass is_valid, in order (the list keys).
ValidKeys(key_list) == SelectSeq(key_list, LAMBDA k : is_valid(Chars(k)))

\* The dictionary after the validation loop over key_list[1..n].
RECURSIVE InvalidEntries(_, _)
InvalidEntries(key_list, n) ==
    IF n = 0 THEN EmptyDict
    ELSE LET key  == key_list[n]
             rest == InvalidEntries(key_list, n - 1)
         IN  IF is_valid(Chars(key)) THEN rest
             ELSE DictSet(rest, key,
                    ReferenceErrorInfo("Invalid Mathematical Reviews identifier", key))

\* FetchInto with "except Exception" in place of "except NotFoundError".
FetchIntoCatchAll(dd, key, r) ==
    IF r.kind = "return" THEN Return(DictSet(dd, key, Reference(r.value)))
    ELSE Return(DictSet(dd, key, ReferenceErrorInfo(ExcStr(r), key)))

\* One turn of the loop "for key in keys": r is what mr_request(key) did.
\* Only NotFoundError is caught; any other exception leaves the loop.
FetchInto(dd, key, r) ==
    IF r.kind = "return" THEN Return(DictSet(dd, key, Reference(r.value)))
    ELSE IF "NotFoundError" \in Bases(r.class)
      THEN Return(DictSet(dd, key, ReferenceErrorInfo(r.args[1], r.args[2])))
    ELSE r

\* The values in the order the dictionary got them: the invalid identifiers
\* first, then the valid ones.
BuildListDictOrder(id_list, dd) ==
    LET order == SelectSeq(id_list, LAMBDA k : ~is_valid(Chars(k)))
                   \o SelectSeq(id_list, LAMBDA k : is_valid(Chars(k)))
    IN  [i \in 1..Len(order) |-> dd[order[i]]]

\* mr2bib: the list of the dictionary's values, one per element of id_list.
BuildList(id_list, dd) ==
    [i \in 1..Len(id_list) |->
        IF id_list[i] \in DOMAIN dd THEN dd[id_list[i]]
        ELSE ReferenceErrorInfo("Not found", id_list[i])]

-----------------------------------------------------------------------------
(* Cli *)

linesep == "\n"

\* os.linesep.join(list)
RECURSIVE join(_, _)
join(sep, list) ==
    IF Len(list) = 0 THEN ""
    ELSE IF Len(list) = 1 THEN list[1]
    ELSE list[1] \o sep \o join(sep, Tail(list))

\* Cli.__init__ without lines 211-212.
ForceQuietNever(comments, quiet, verbose) == quiet

\* Cli.__init__: quiet is forced when comments is set and verbose is not.
ForceQuiet(comments, quiet, verbose) ==
    IF comments /\ ~verbose THEN TRUE ELSE quiet

\* Cli.__init__: the identifiers are the positional arguments, or the
\* stripped lines of standard input when there is none.
ReadIds(argv_ids, stdin_lines) ==
    IF Len(argv_ids) = 0
    THEN [i \in 1..Len(stdin_lines) |-> strip(stdin_lines[i])]
    ELSE argv_ids

\* Cli.create_output, over bib[1..n]: the output buffer, the message buffer
\* and the error count.
RECURSIVE create_output(_, _, _)
create_output(a, bb, n) ==
    IF n = 0 THEN [output |-> <<>>, messages |-> <<>>, error_count |-> 0]
    ELSE LET b    == bb[n]
             prev == create_output(a, bb, n - 1)
         IN  IF b.type = "ReferenceErrorInfo"
             THEN [output |-> IF a.comments THEN Append(prev.output, bibtex(b))
                                            ELSE prev.output,
                   messages |-> IF ~a.quiet THEN Append(prev.messages, str(b))
                                            ELSE prev.messages,
                   error_count |-> prev.error_count + 1]
             ELSE [prev EXCEPT !.output = Append(prev.output, bibtex(b))]

\* tally_errors with its first two tests in the other order.
tally_errors_partial_first(errors, n_ids, n_bib) ==
    IF errors > 0
    THEN [append |-> <<ToString(n_bib - errors) \o " of " \o ToString(n_bib)
                         \o " matched succesfully">>,
          code |-> 1]
    ELSE IF errors = n_ids
    THEN [append |-> <<"No successful matches">>, code |-> 2]
    ELSE [append |-> <<>>, code |-> 0]

\* Cli.tally_errors: the message it appends (or none) and the code.
tally_errors(errors, n_ids, n_bib) ==
    IF errors = n_ids
    THEN [append |-> <<"No successful matches">>, code |-> 2]
    ELSE IF errors > 0
    THEN [append |-> <<ToString(n_bib - errors) \o " of " \o ToString(n_bib)
                         \o " matched succesfully">>,
          code |-> 1]
    ELSE [append |-> <<>>, code |-> 0]

\* A character outside ASCII is written U+XXXX in a string of the model.
HasNonAscii(s) == Contains(s, "U+")

\* Cli.run: "except HTTPError" turns an HTTPError into a FatalError.
RunExcept(e) ==
    IF "HTTPError" \in Bases(e.class)
    THEN Raise("FatalError", <<"HTTP Connection Error">>)
    ELSE e

\* main: "except FatalError" writes the message and returns 2; any other
\* exception leaves main.
MainExcept(e) ==
    IF "FatalError" \in Bases(e.class)
    THEN [exit |-> Return(2), err |-> e.args[1] \o linesep]
    ELSE [exit |-> e, err |-> ""]

-----------------------------------------------------------------------------
(* The inputs of the model. *)

\* All sequences over S of length at most n.
SeqsUpTo(S, n) == UNION {[1..m -> S] : m \in 0..n}

IdPool == {"MR1996800", "MR0546620", "MR19A6800"}

StdinLines == {" MR1996800 \n", "\n"}

\* Bodies of a 200 response (already split into lines).
FoundBody ==
    <<"<html>", "<pre>", "@article {MR1996800,", " AUTHOR = {MU+00FCller},}", "</pre>">>

NotFoundBody == <<"<html>", "No publications results for MR0000000">>

EmptyBody == <<"">>

Bodies == {FoundBody, NotFoundBody, EmptyBody}

Responses ==
    [status : {200}, body : Bodies] \cup [status : {401, 500}, body : {EmptyBody}]

-----------------------------------------------------------------------------
(* The program: main() from the constructed Cli to the exit of the process. *)

NoExit == [kind |-> "none"]

\* The state after Cli(args): the arguments are parsed, the buffers empty.
Init ==
    /\ \E argv_ids \in SeqsUpTo(IdPool, MaxIds) :
       \E stdin_lines \in (IF Len(argv_ids) = 0 THEN SeqsUpTo(StdinLines, MaxIds)
                                                ELSE {<<>>}) :
       \E c \in BOOLEAN, q \in BOOLEAN, v \in BOOLEAN :
          args = [id       |-> ReadIds(argv_ids, stdin_lines),
                  comments |-> c,
                  quiet    |-> ForceQuiet(c, q, v),
                  verbose  |-> v]
    /\ pc = "run"
    /\ keys = <<>>
    /\ d = EmptyDict
    /\ requests = <<>>
    /\ bib = <<>>
    /\ output = <<>>
    /\ messages = <<>>
    /\ error_count = 0
    /\ code = 0
    /\ stdout = ""
    /\ stderr = ""
    /\ exit = NoExit
    /\ status = <<>>
    /\ fn_in = <<>>
    /\ fn_out = <<>>

\* mr2bib_dict, lines 174-185: the validation loop.
Validate ==
    /\ pc = "run"
    /\ keys' = ValidKeys(args.id)
    /\ d' = InvalidEntries(args.id, Len(args.id))
    /\ pc' = IF Len(keys') = 0 THEN "list" ELSE "fetch"
    /\ UNCHANGED <<args, requests, bib, output, messages, error_count, code,
                   stdout, stderr, exit, status, fn_in, fn_out>>

\* mr2bib_dict, lines 189-195: one turn of the loop over keys, with the
\* exchange mr_request makes.  An exception that is not caught leaves
\* mr2bib_dict, mr2bib, Cli.run and reaches main.
Request ==
    /\ pc = "fetch"
    /\ \E resp \in Responses :
         LET key == keys[Len(requests) + 1]
             r   == FetchInto(d, key, mr_request(key, resp))
             m   == MainExcept(RunExcept(r))
         IN  /\ requests' = Append(requests,
                   [query |-> Payload(key), status |-> resp.status, body |-> resp.body])
             /\ IF r.kind = "return"
                THEN /\ d' = r.value
                     /\ pc' = IF Len(requests') = Len(keys) THEN "list" ELSE "fetch"
                     /\ UNCHANGED <<exit, stderr>>
                ELSE /\ d' = d
                     /\ exit' = m.exit
                     /\ stderr' = stderr \o m.err
                     /\ pc' = "exit"
    /\ UNCHANGED <<args, keys, bib, output, messages, error_count, code,
                   stdout, status, fn_in, fn_out>>

\* mr2bib, lines 112-119.
MakeList ==
    /\ pc = "list"
    /\ bib' = BuildList(args.id, d)
    /\ pc' = "output"
    /\ UNCHANGED <<args, keys, d, requests, output, messages, error_count, code,
                   stdout, stderr, exit, status, fn_in, fn_out>>

\* Cli.run, line 226.
CreateOutput ==
    /\ pc = "output"
    /\ LET o == create_output(args, bib, Len(bib))
       IN  /\ output' = o.output
           /\ messages' = o.messages
           /\ error_count' = o.error_count
    /\ pc' = "tally"
    /\ UNCHANGED <<args, keys, d, requests, bib, code, stdout, stderr, exit,
                   status, fn_in, fn_out>>

\* Cli.run, line 227.
TallyErrors ==
    /\ pc = "tally"
    /\ LET t == tally_errors(error_count, Len(args.id), Len(bib))
       IN  /\ messages' = messages \o t.append
           /\ code' = t.code
    /\ pc' = "print_output"
    /\ UNCHANGED <<args, keys, d, requests, bib, output, error_count, stdout,
                   stderr, exit, status, fn_in, fn_out>>

\* Cli.print_output.  Whether print raises UnicodeEncodeError depends on the
\* encoding of the standard output, when the text has a non-ASCII character.
PrintOutput ==
    /\ pc = "print_output"
    /\ IF Len(output) = 0
       THEN UNCHANGED <<stdout, messages>>
       ELSE LET output_string == join(linesep, output)
            IN  \E encodable \in (IF HasNonAscii(output_string) THEN BOOLEAN ELSE {TRUE}) :
                  /\ stdout' = stdout \o output_string \o linesep
                  /\ messages' = IF ~encodable /\ args.verbose
                                 THEN Append(messages,
                                        "Could not use system encoding; using utf-8")
                                 ELSE messages
    /\ pc' = "print_messages"
    /\ UNCHANGED <<args, keys, d, requests, bib, output, error_count, code,
                   stderr, exit, status, fn_in, fn_out>>

\* Cli.print_messages, then "return cli.code".
PrintMessages ==
    /\ pc = "print_messages"
    /\ IF Len(messages) > 0
       THEN /\ messages' = Append(messages, "")
            /\ stderr' = stderr \o join(linesep, messages')
       ELSE UNCHANGED <<messages, stderr>>
    /\ exit' = Return(code)
    /\ pc' = "exit"
    /\ UNCHANGED <<args, keys, d, requests, bib, output, error_count, code,
                   stdout, status, fn_in, fn_out>>

\* sys.exit(main()): the status is main's return value; an exception that
\* left main ends the process with a traceback and status 1.
SysExit ==
    /\ pc = "exit"
    /\ IF exit.kind = "return"
       THEN /\ status' = <<exit.value>>
            /\ UNCHANGED stderr
       ELSE /\ status' = <<1>>
            /\ stderr' = stderr \o "Traceback (most recent call last):" \o linesep
                                \o exit.class \o ": " \o ExcStr(exit) \o linesep
    /\ pc' = "done"
    /\ UNCHANGED <<args, keys, d, requests, bib, output, messages, error_count,
                   code, stdout, exit, fn_in, fn_out>>

Next ==
    \/ Validate
    \/ Request
    \/ MakeList
    \/ CreateOutput
    \/ TallyErrors
    \/ PrintOutput
    \/ PrintMessages
    \/ SysExit

Spec == Init /\ [][Next]_vars

-----------------------------------------------------------------------------
(* is_valid on its own: every key of a bounded family of strings.          *)

Prefixes == {<<"M", "R">>, <<"X", "R">>, <<"m", "r">>, <<"M">>, <<>>,
             <<" ", "M", "R">>}

OddChars == {"A", " ", "-", "U+00B2", "5"}

\* prefix, then n times the digit "1", the character at pos (if any)
\* replaced by odd.
ValidatorInputs ==
    {p \o [i \in 1..n |-> IF i = pos THEN odd ELSE "1"] :
        p \in Prefixes, n \in 0..MaxDigits, pos \in 0..MaxDigits, odd \in OddChars}

Idle ==
    /\ args = [id |-> <<>>, comments |-> FALSE, quiet |-> FALSE, verbose |-> FALSE]
    /\ keys = <<>>
    /\ d = EmptyDict
    /\ requests = <<>>
    /\ bib = <<>>
    /\ output = <<>>
    /\ messages = <<>>
    /\ error_count = 0
    /\ code = 0
    /\ stdout = ""
    /\ stderr = ""
    /\ exit = NoExit
    /\ status = <<>>

InitValid ==
    /\ Idle
    /\ pc = "is_valid"
    /\ fn_in \in ValidatorInputs
    /\ fn_out = <<>>

CallIsValid ==
    /\ pc = "is_valid"
    /\ fn_out' = <<is_valid(fn_in)>>
    /\ pc' = "returned"
    /\ UNCHANGED <<cliVars, fn_in>>

NextValid == CallIsValid

SpecValid == InitValid /\ [][NextValid]_vars

-----------------------------------------------------------------------------
(* One fetch on its own: every body of at most MaxLines lines over a small *)
(* set of lines, for a dictionary that is still empty.                     *)

NotFoundLine == "<p>No publications results for MR1996800</p>"

FetchLines == {"<pre>", " </pre>\r", "<pre> ", "@article {MR1996800,}", NotFoundLine}

FetchBodies == SeqsUpTo(FetchLines, MaxLines) \ {<<>>}

InitFetch ==
    /\ Idle
    /\ pc = "mr_request"
    /\ fn_in \in [key : {"MR1996800"}, status : {200, 401, 404}, body : FetchBodies]
    /\ fn_out = <<>>

CallFetch ==
    /\ pc = "mr_request"
    /\ fn_out' = <<FetchInto(EmptyDict, fn_in.key,
                     mr_request(fn_in.key, [status |-> fn_in.status, body |-> fn_in.body]))>>
    /\ pc' = "returned"
    /\ UNCHANGED <<cliVars, fn_in>>

NextFetch == CallFetch

SpecFetch == InitFetch /\ [][NextFetch]_vars

-----------------------------------------------------------------------------
(* What the properties below speak of, stated from the inputs and from the *)
(* HTTP exchanges alone.                                                   *)

\* The run got past the fetches and no exception left main.
Aggregated == pc \notin {"run", "fetch", "list"} /\ exit.kind # "raise"

\* mr2bib_dict is in its loop over the valid keys, or has just returned.
InAggregator == pc \in {"fetch", "list"}

\* main has ended.
Ended == pc \in {"exit", "done"}

IsInvalid(id) == ~is_valid(Chars(id))

HasNotFoundLine(body) == \E i \in 1..Len(body) : Contains(body[i], NotFoundMarker)

\* The exchanges with status 200 made for identifier id.
OkExchanges(id) ==
    {i \in 1..Len(requests) : requests[i].query.s1 = id /\ requests[i].status = 200}

LastOkExchange(id) ==
    requests[CHOOSE i \in OkExchanges(id) : \A j \in OkExchanges(id) : j <= i]

\* The text of the code block of a body without a not-found line.
Markup(body) == ScanLines("", body, 1, FALSE, "").value

\* What the batch produces for identifier id, with the messages of the code.
ProducedFor(id) ==
    IF IsInvalid(id)
    THEN ReferenceErrorInfo("Invalid Mathematical Reviews identifier", id)
    ELSE IF HasNotFoundLine(LastOkExchange(id).body)
    THEN ReferenceErrorInfo("No such publication", id)
    ELSE Reference(Markup(LastOkExchange(id).body))

Errored(id) == ProducedFor(id).type = "ReferenceErrorInfo"

ErrorPositions == {i \in 1..Len(args.id) : Errored(args.id[i])}

IsErrorInfo(b, message, id) ==
    b.type = "ReferenceErrorInfo" /\ b.message = message /\ b.id = id

-----------------------------------------------------------------------------
(* C1: when no fetch fails fatally, the list returned by mr2bib has the    *)
(* length of the input, and its i-th element is the ErrorInfo or Record    *)
(* produced for the i-th input identifier.  (pc = "output" is the state in *)
(* which mr2bib has just returned.)                                        *)
C1_ResultOrder ==
    pc = "output" =>
        /\ Len(bib) = Len(args.id)
        /\ \A i \in 1..Len(args.id) : bib[i] = ProducedFor(args.id[i])

\* An invalid identifier, one that is not found and one that is found.
C1_Witness ==
    /\ pc = "output"
    /\ Len(bib) = 3
    /\ IsInvalid(args.id[1])
    /\ bib[2].type = "ReferenceErrorInfo" /\ ~IsInvalid(args.id[2])
    /\ bib[3].type = "Reference"

-----------------------------------------------------------------------------
(* C2, as stated: the code returned by main is 0 if no identifier errored, *)
(* 1 if some but not all errored, 2 if all errored.                        *)
C2_AsStated ==
    (Ended /\ exit.kind = "return") =>
        LET e == Cardinality(ErrorPositions)
            n == Len(args.id)
        IN  /\ (e = 0 => exit.value = 0)
            /\ (0 < e /\ e < n => exit.value = 1)
            /\ (e = n => exit.value = 2)

(* C2, amended: the code returned by main is 2 if all identifiers errored, *)
(* which includes the empty list; otherwise 1 if some errored, otherwise 0.*)
C2_ExitCode ==
    (Ended /\ exit.kind = "return") =>
        LET e == Cardinality(ErrorPositions)
            n == Len(args.id)
        IN  exit.value = (IF e = n THEN 2 ELSE IF e > 0 THEN 1 ELSE 0)

C2_Witness ==
    /\ pc = "done"
    /\ status = <<1>>
    /\ exit.kind = "return"
    /\ Len(args.id) = 3
    /\ Cardinality(ErrorPositions) = 2

-----------------------------------------------------------------------------
(* C3: a fetch that receives a status other than 200 and 401 makes main    *)
(* return 2, after a message holding the status code went to stderr.       *)
C3_FatalStatusReturns2 ==
    (pc = "done" /\ \E i \in 1..Len(requests) : requests[i].status \notin {200, 401}) =>
        /\ exit = Return(2)
        /\ status = <<2>>
        /\ \E i \in 1..Len(requests) :
              /\ requests[i].status \notin {200, 401}
              /\ Contains(stderr, ToString(requests[i].status))

-----------------------------------------------------------------------------
(* C4, as stated: an invalid identifier has an ErrorInfo "Invalid          *)
(* identifier", one that is not found an ErrorInfo "Not found", one that   *)
(* is fetched a Record of the markup, unmodified.                          *)
C4_AsStated ==
    InAggregator => \A i \in 1..Len(args.id) :
        LET id == args.id[i]
        IN  IF IsInvalid(id)
            THEN IsErrorInfo(d[id], "Invalid identifier", id)
            ELSE OkExchanges(id) # {} =>
                   IF HasNotFoundLine(LastOkExchange(id).body)
                   THEN IsErrorInfo(d[id], "Not found", id)
                   ELSE d[id] = Reference(Markup(LastOkExchange(id).body))

(* C4, amended: the messages are "Invalid Mathematical Reviews identifier" *)
(* and "No such publication"; an identifier has exactly one entry, which   *)
(* is of one of the three kinds.                                           *)
C4_Outcomes ==
    InAggregator => \A i \in 1..Len(args.id) :
        LET id == args.id[i]
        IN  IF IsInvalid(id)
            THEN IsErrorInfo(d[id], "Invalid Mathematical Reviews identifier", id)
            ELSE IF OkExchanges(id) = {} THEN id \notin DOMAIN d
            ELSE IF HasNotFoundLine(LastOkExchange(id).body)
            THEN IsErrorInfo(d[id], "No such publication", id)
            ELSE d[id] = Reference(Markup(LastOkExchange(id).body))

C4_Witness ==
    /\ pc = "list"
    /\ Len(args.id) = 3
    /\ \E i, j, k \in 1..3 :
          /\ IsInvalid(args.id[i])
          /\ IsErrorInfo(d[args.id[j]], "No such publication", args.id[j])
          /\ d[args.id[k]].type = "Reference" /\ d[args.id[k]].entry # ""

-----------------------------------------------------------------------------
(* C5: with comments set and verbose not set, quiet is on, the message     *)
(* buffer never holds an "Error: ..." line, and the output buffer holds,   *)
(* in input order, the "@comment{id: message}" line of each erroring       *)
(* identifier and the markup of each other one.                            *)
C5_CommentsQuiet ==
    (args.comments /\ ~args.verbose) =>
        /\ args.quiet
        /\ \A m \in 1..Len(messages) :
              ~(Len(messages[m]) >= 7 /\ SubSeq(messages[m], 1, 7) = "Error: ")
        /\ (Aggregated /\ pc # "output") =>
              /\ Len(output) = Len(args.id)
              /\ \A i \in 1..Len(args.id) :
                    LET p == ProducedFor(args.id[i])
                    IN  output[i] =
                          IF p.type = "ReferenceErrorInfo"
                          THEN "@comment{" \o args.id[i] \o ": " \o p.message \o "}"
                          ELSE p.entry

C5_Witness ==
    /\ args.comments /\ ~args.verbose
    /\ pc = "done"
    /\ Len(args.id) = 3
    /\ error_count = 2
    /\ Len(output) = 3
    /\ \E i \in 1..3 : bib[i].type = "Reference"

-----------------------------------------------------------------------------
(* The rule of the validator: "MR", then decimal digits only, 9 or 10      *)
(* characters in all.                                                      *)
RuleValid(key) ==
    /\ Len(key) \in {9, 10}
    /\ key[1] = "M" /\ key[2] = "R"
    /\ \A i \in 3..Len(key) : key[i] \in AsciiDigits

(* C6: is_valid(s) is true if and only if the first two characters of s    *)
(* are "MR", every remaining character is a decimal digit, and the length  *)
(* of s is 9 or 10; s is tested as it is, without trimming.                *)
C6_ValidIffRule ==
    pc = "returned" => fn_out[1] = RuleValid(fn_in)

-----------------------------------------------------------------------------
(* C7: a 200 response with a not-found line in its body gives an ErrorInfo *)
(* for the requested identifier, never a Record, wherever the line is.     *)
C7_NotFoundAnywhere ==
    (pc = "returned" /\ fn_in.status = 200 /\ HasNotFoundLine(fn_in.body)) =>
        /\ fn_out[1].kind = "return"
        /\ DOMAIN fn_out[1].value = {fn_in.key}
        /\ fn_out[1].value[fn_in.key].type = "ReferenceErrorInfo"
        /\ fn_out[1].value[fn_in.key].id = fn_in.key

\* The not-found line inside an open block, after a line of markup.
C7_Witness ==
    /\ pc = "returned"
    /\ fn_in.status = 200
    /\ fn_in.body = <<"<pre>", "@article {MR1996800,}", NotFoundLine>>
    /\ fn_out[1].value[fn_in.key].type = "ReferenceErrorInfo"

-----------------------------------------------------------------------------
(* C8: once a fetch has failed fatally, no further request is made and     *)
(* nothing is ever written to standard output.                             *)
C8_FatalStopsBatch ==
    \A i \in 1..Len(requests) :
        requests[i].status # 200 =>
            /\ i = Len(requests)
            /\ Ended
            /\ stdout = ""

\* The second of three fetches fails after the first gave a record.
C8_Witness ==
    /\ pc = "done"
    /\ Len(keys) = 3
    /\ Len(requests) = 2
    /\ requests[2].status = 401
    /\ d[keys[1]].type = "Reference" /\ d[keys[1]].entry # ""
    /\ stdout = ""

-----------------------------------------------------------------------------
(* The valid identifiers of ids, one per occurrence, in order.             *)
RECURSIVE ValidOccurrences(_)
ValidOccurrences(ids) ==
    IF Len(ids) = 0 THEN <<>>
    ELSE IF IsInvalid(Head(ids)) THEN ValidOccurrences(Tail(ids))
    ELSE <<Head(ids)>> \o ValidOccurrences(Tail(ids))

(* C9: requests are made for the valid identifiers only, one per           *)
(* occurrence and in input order, and for all of them when no fetch fails  *)
(* fatally, whatever came before them in the input.                        *)
C9_RequestsOnlyValid ==
    LET sent == [i \in 1..Len(requests) |-> requests[i].query.s1]
        want == ValidOccurrences(args.id)
    IN  /\ Len(sent) <= Len(want)
        /\ sent = SubSeq(want, 1, Len(sent))
        /\ (pc \notin {"run", "fetch"} /\ exit.kind # "raise") => sent = want

\* An invalid identifier, then one that is not found, then one more fetch.
C9_Witness ==
    /\ pc = "list"
    /\ Len(args.id) = 3
    /\ IsInvalid(args.id[1])
    /\ Len(requests) = 2
    /\ HasNotFoundLine(requests[1].body)

-----------------------------------------------------------------------------
(* The lines of a body that belong to its code block.                      *)

IsOpen(body, i) == strip(body[i]) = "<pre>"

IsClose(body, i) == strip(body[i]) = "</pre>"

\* "\n" and the line, for each line of body[1..n] whose index is in sel.
RECURSIVE JoinSelected(_, _, _)
JoinSelected(body, sel, n) ==
    IF n = 0 THEN ""
    ELSE JoinSelected(body, sel, n - 1) \o (IF n \in sel THEN "\n" \o body[n] ELSE "")

\* Line i is no marker and lies between an open marker and the close marker
\* that follows it.
BetweenPair(body, i) ==
    /\ ~IsOpen(body, i) /\ ~IsClose(body, i)
    /\ \E j \in 1..(i - 1) :
          /\ IsOpen(body, j)
          /\ \A k \in (j + 1)..(i - 1) : ~IsClose(body, k)
    /\ \E m \in (i + 1)..Len(body) : IsClose(body, m)

\* Line i comes after an open marker, with no close marker from there up to
\* and including line i.
InOpenBlock(body, i) ==
    \E j \in 1..(i - 1) :
        /\ IsOpen(body, j)
        /\ \A k \in (j + 1)..i : ~IsClose(body, k)

FetchedEntry == fn_out[1].value[fn_in.key]

(* C10, as stated: for a 200 response without a not-found line, the markup *)
(* is the lines strictly between an open marker and the following close    *)
(* marker, each after a line break; no marker line is included.            *)
C10_AsStated ==
    (pc = "returned" /\ fn_in.status = 200 /\ ~HasNotFoundLine(fn_in.body)) =>
        FetchedEntry = Reference(JoinSelected(fn_in.body,
            {i \in 1..Len(fn_in.body) : BetweenPair(fn_in.body, i)}, Len(fn_in.body)))

(* C10, amended: for a 200 response without a not-found line, the markup   *)
(* is the lines that come after an open marker with no close marker in     *)
(* between, whether the block is closed or not, each after a line break;   *)
(* this includes an open marker met inside an open block, and never a      *)
(* close marker; it is empty when the body has no open marker.             *)
C10_Extract ==
    (pc = "returned" /\ fn_in.status = 200 /\ ~HasNotFoundLine(fn_in.body)) =>
        /\ fn_out[1].kind = "return"
        /\ FetchedEntry = Reference(JoinSelected(fn_in.body,
              {i \in 1..Len(fn_in.body) : InOpenBlock(fn_in.body, i)}, Len(fn_in.body)))
        /\ (\A i \in 1..Len(fn_in.body) : ~IsOpen(fn_in.body, i)) =>
              FetchedEntry.entry = ""

C10_Witness ==
    /\ pc = "returned"
    /\ fn_in.status = 200
    /\ fn_in.body = <<"<pre>", "@article {MR1996800,}", " </pre>\r", "@article {MR1996800,}">>
    /\ FetchedEntry.entry = "\n@article {MR1996800,}"

=============================================================================
